---- MODULE Spec2Model ----
(***************************************************************************)
(* Kalshi risk-neutralization bot (src/bot.py).                            *)
(*                                                                         *)
(* Prices are Python floats in the program.  They are modelled as IEEE-754 *)
(* binary64 values: a sign, a 53-bit mantissa held in three limbs of 18    *)
(* bits (least significant first; the top limb may exceed 18 bits while a  *)
(* result is being rounded) and a binary exponent, value = man * 2^exp.    *)
(* Every arithmetic operator rounds to nearest, ties to even, as the       *)
(* hardware does, so that 0.03 - 0.02 and 0.15 / 0.05 come out as they do  *)
(* in the program and not as they do on paper.                             *)
(*                                                                         *)
(* Decimal amounts that enter the program (avg_price, yes_bid) are given   *)
(* in hundredths: avg = 50 is the number 0.50, avg = 5000 is the number 50.*)
(***************************************************************************)
EXTENDS Integers, Sequences, FiniteSets, TLC

\* ------------------------------------------------------------------ bounds
MaxPositions == 2
MaxEntryCents == 10
MaxBidCents == 16
MaxQty == 6

\* ------------------------------------------------- binary64 arithmetic
LimbBase == 262144
MantTop == 65536
PyMax(a, b) == IF a >= b THEN a ELSE b
PyMin(a, b) == IF a <= b THEN a ELSE b
BigZero == <<0, 0, 0>>
BigOne == <<1, 0, 0>>
BigOf(n) == <<n % LimbBase, (n \div LimbBase) % LimbBase, 0>>
BigAdd(x, y) ==
  LET s1 == x[1] + y[1]
      s2 == x[2] + y[2] + (s1 \div LimbBase)
  IN  <<s1 % LimbBase, s2 % LimbBase, x[3] + y[3] + (s2 \div LimbBase)>>
BigSub(x, y) ==
  LET d1 == x[1] - y[1]
      b1 == IF d1 < 0 THEN 1 ELSE 0
      d2 == x[2] - y[2] - b1
      b2 == IF d2 < 0 THEN 1 ELSE 0
  IN  <<d1 + b1 * LimbBase, d2 + b2 * LimbBase, x[3] - y[3] - b2>>
BigLt(x, y) ==
  \/ x[3] < y[3]
  \/ x[3] = y[3] /\ (x[2] < y[2] \/ (x[2] = y[2] /\ x[1] < y[1]))
BigDbl(x) == BigAdd(x, x)
BigHalf(x) ==
  <<(x[1] \div 2) + (x[2] % 2) * (LimbBase \div 2),
    (x[2] \div 2) + (x[3] % 2) * (LimbBase \div 2),
    x[3] \div 2>>
BigOdd(x) == x[1] % 2 = 1
BigMulSmall(x, k) ==
  LET p1 == x[1] * k
      p2 == x[2] * k + (p1 \div LimbBase)
  IN  <<p1 % LimbBase, p2 % LimbBase, x[3] * k + (p2 \div LimbBase)>>
\* x * 2^n; bits pushed out of a limb go to the next one
RECURSIVE BigShl(_, _)
BigShl(x, n) ==
  IF n >= 18 THEN BigShl(<<0, x[1], x[2] + x[3] * LimbBase>>, n - 18)
  ELSE LET p == 2 ^ n
           r == LimbBase \div p
       IN  <<(x[1] % r) * p, (x[2] % r) * p + (x[1] \div r), x[3] * p + (x[2] \div r)>>
\* x \div 2^n
RECURSIVE BigShr(_, _)
BigShr(x, n) ==
  IF n >= 18 THEN BigShr(<<x[2], x[3], 0>>, n - 18)
  ELSE LET p == 2 ^ n
           r == LimbBase \div p
       IN  <<(x[1] \div p) + (x[2] % p) * r, (x[2] \div p) + (x[3] % p) * r, x[3] \div p>>

FZero == [neg |-> FALSE, man |-> BigZero, exp |-> 0]
FIsZero(x) == x.man = BigZero
\* round a mantissa of 53 bits or more to 53 bits, nearest, ties to even
RECURSIVE RoundMant(_, _, _, _)
RoundMant(man, exp, half, sticky) ==
  IF man[3] >= 2 * MantTop
  THEN RoundMant(BigHalf(man), exp + 1, BigOdd(man), sticky \/ half)
  ELSE LET up == half /\ (sticky \/ BigOdd(man))
           m2 == IF up THEN BigAdd(man, BigOne) ELSE man
       IN  IF m2[3] >= 2 * MantTop
           THEN [man |-> BigHalf(m2), exp |-> exp + 1]
           ELSE [man |-> m2, exp |-> exp]
\* bring an exact non-zero mantissa into [2^52, 2^53)
RECURSIVE NormMant(_, _)
NormMant(man, exp) ==
  IF man[3] >= MantTop THEN RoundMant(man, exp, FALSE, FALSE)
  ELSE IF man[3] = 0 THEN NormMant(<<0, man[1], man[2]>>, exp - 18)
  ELSE NormMant(BigDbl(man), exp - 1)
FMake(neg, man, exp, sticky) ==
  IF man = BigZero THEN FZero
  ELSE LET r == IF sticky THEN RoundMant(man, exp, FALSE, TRUE) ELSE NormMant(man, exp)
       IN  [neg |-> neg, man |-> r.man, exp |-> r.exp]
\* float(n) for an int n, |n| < 2^31
FromInt(n) == FMake(n < 0, BigOf(IF n < 0 THEN -n ELSE n), 0, FALSE)
\* one bit of restoring division: st = <<remainder, quotient>>
DivStep(st, d) ==
  IF BigLt(st[1], d)
  THEN <<BigDbl(st[1]), BigDbl(st[2])>>
  ELSE <<BigDbl(BigSub(st[1], d)), BigAdd(BigDbl(st[2]), BigOne)>>
DivStep4(st, d) == DivStep(DivStep(DivStep(DivStep(st, d), d), d), d)
RECURSIVE DivLoop(_, _, _)
DivLoop(st, d, n) ==
  IF n = 0 THEN st
  ELSE LET nx == DivStep4(st, d)
       IN  IF nx[1] = BigZero
           THEN <<BigZero, BigShl(nx[2], 4 * (n - 1))>>
           ELSE DivLoop(nx, d, n - 1)
\* x / y, y non-zero: 56 quotient bits (an exact quotient ends the loop early),
\* the remainder is the sticky bit
FDiv(x, y) ==
  IF FIsZero(x) THEN FZero
  ELSE LET qr == DivLoop(<<x.man, BigZero>>, y.man, 14)
       IN  FMake(x.neg # y.neg, qr[2], x.exp - y.exp - 55, qr[1] # BigZero)
\* x * k for a float x and an int k, |k| < 4096
FMulInt(x, k) ==
  IF k = 0 \/ FIsZero(x) THEN FZero
  ELSE FMake(x.neg # (k < 0), BigMulSmall(x.man, IF k < 0 THEN -k ELSE k), x.exp, FALSE)
MagLt(x, y) ==
  IF FIsZero(y) THEN FALSE
  ELSE IF FIsZero(x) THEN TRUE
  ELSE x.exp < y.exp \/ (x.exp = y.exp /\ BigLt(x.man, y.man))
FLt(x, y) ==
  IF x.neg /\ ~y.neg THEN ~(FIsZero(x) /\ FIsZero(y))
  ELSE IF ~x.neg /\ y.neg THEN FALSE
  ELSE IF x.neg THEN MagLt(y, x) ELSE MagLt(x, y)
FGe(x, y) == ~FLt(x, y)
MagSub(x, y) ==
  LET e == IF FIsZero(y) \/ x.exp < y.exp THEN x.exp ELSE y.exp
      a == BigShl(x.man, x.exp - e)
      b == IF FIsZero(y) THEN BigZero ELSE BigShl(y.man, y.exp - e)
  IN  [man |-> BigSub(a, b), exp |-> e]
\* x - y for non-negative x and y
FSub(x, y) ==
  IF MagLt(x, y)
  THEN LET d == MagSub(y, x) IN FMake(TRUE, d.man, d.exp, FALSE)
  ELSE LET d == MagSub(x, y) IN FMake(FALSE, d.man, d.exp, FALSE)
\* floor(x) and int(x) for a non-negative float x below 2^31
FFloor(x) ==
  IF FIsZero(x) \/ x.exp < -53 THEN 0
  ELSE LET t == BigShr(x.man, -x.exp) IN t[1] + t[2] * LimbBase
\* the float nearest to the decimal h / 100 (what the API client hands over)
Dec(h) == FDiv(FromInt(h), FromInt(100))

\* ------------------------------------------------------------ constants
MIN_INVESTMENT_TO_HEDGE == 10
Required == {"KALSHI_KEY", "KALSHI_SECRET", "SUPABASE_URL", "SUPABASE_KEY", "DISCORD_URL"}
\* position.get('id') when the position has no database id
NoId == 0
\* the id of a stored position in the calls that pass one
StoredId == 7
\* exit_status while the process has not exited
Running == -1
\* 0.50, the gain that triggers the hedge
TriggerGain == Dec(50)

\* ---------------------------------------------------- the environment
\* what the exchange can hold for one market: avg_price as it is reported
\* (0.50 in dollars, 50 in cents) and the number of contracts
Items == {[avg |-> 50, position |-> 100], [avg |-> 5000, position |-> 100]}
\* yes_bid quotes, in cents, that the exchange gives during a run
LiveBids == {0, 74, 75}
Market(bids) ==
  {[res |-> "raise", yes_bid |-> 0], [res |-> "nodata", yes_bid |-> 0]}
    \cup {[res |-> "ok", yes_bid |-> b] : b \in bids}
OrderOutcomes == {"ok", "none", "raise"}
\* the exchange does not answer: the calls to it are made without a timeout
NoAnswer == [res |-> "hang", yes_bid |-> 0]
DbOutcomes == {"ok", "raise"}
DiscordOutcomes == {"204", "500", "raise"}

VARIABLES
  pc,          \* "start", "run", "loop", "exited"; "blocked": inside a call to
               \* the exchange that never answers; "test", ... in unit calls
  portfolio,   \* the exchange's market_positions: <<[ticker, avg, position]>>
  positions,   \* the list fetch_open_positions returned to run
  idx,         \* the position the for loop of run is at
  calls,       \* what this process did, in order: calls to the collaborators
               \* and the steps of process_position
  exit_status, \* the exit status of the process, Running before it exits
  hedged,      \* tickers with a successful sell order in an earlier run
  arg,         \* unit calls: the decimal inputs of the call
  ret,         \* unit calls: what calculate_hedge_quantity returned
  environ      \* the required variables that os.environ holds a value for
vars == <<pc, portfolio, positions, idx, calls, exit_status, hedged, arg, ret, environ>>

Ev(op, pos, ticker, kind, a, b, res) ==
  [op |-> op, pos |-> pos, ticker |-> ticker, kind |-> kind, a |-> a, b |-> b, res |-> res]
NoArg == [avg |-> 0, quantity |-> 0, id |-> NoId]
NoRet == [yes_bid |-> 0, value |-> -1]

\* ------------------------------------------------------- the methods
\* send_discord_alert: one POST, whatever comes back is only printed.
\* ticker is the ticker the message names (0: the message names none).
SendDiscordAlert(pos, ticker, kind, a, b, d) ==
  <<Ev("send_discord_alert", pos, ticker, kind, a, b, d)>>

\* get_current_price answering a price of 1.00 when it has no quote
GetCurrentPrice_DefaultsToOne(m) ==
  IF m.res = "ok"
  THEN [some |-> TRUE, val |-> FDiv(FromInt(m.yes_bid), FromInt(100))]
  ELSE [some |-> TRUE, val |-> FromInt(1)]
GetCurrentPrice(m) ==
  IF m.res = "ok"
  THEN [some |-> TRUE, val |-> FDiv(FromInt(m.yes_bid), FromInt(100))]
  ELSE [some |-> FALSE, val |-> FZero]

\* floor(initial_capital / current_price), before the clamp
ContractsToSellRaw(entry_price, quantity, current_price) ==
  FFloor(FDiv(FMulInt(entry_price, quantity), current_price))
\* calculate_hedge_quantity without the cap min(., quantity - 1)
CalculateHedgeQuantity_NoCap(entry_price, quantity, current_price) ==
  PyMax(0, FFloor(FDiv(FMulInt(entry_price, quantity), current_price)))
\* calculate_hedge_quantity rounding the quotient up instead of down
CalculateHedgeQuantity_RoundUp(entry_price, quantity, current_price) ==
  PyMax(0, PyMin(FFloor(FDiv(FMulInt(entry_price, quantity), current_price)) + 1, quantity - 1))
\* calculate_hedge_quantity taking the capital at the current price
CalculateHedgeQuantity_AtCurrentPrice(entry_price, quantity, current_price) ==
  PyMax(0, PyMin(FFloor(FDiv(FMulInt(current_price, quantity), current_price)), quantity - 1))
CalculateHedgeQuantity(entry_price, quantity, current_price) ==
  LET initial_capital == FMulInt(entry_price, quantity)
      contracts_to_sell == FFloor(FDiv(initial_capital, current_price))
  IN  PyMax(0, PyMin(contracts_to_sell, quantity - 1))

ExecuteSellOrder(pos, ticker, quantity, price, o, d) ==
  LET price_cents == FFloor(FMulInt(price, 100))
      order == <<Ev("create_order", pos, ticker, "sell", quantity, price_cents, o)>>
  IN  IF o = "raise"
      THEN [calls |-> order \o SendDiscordAlert(pos, ticker, "order_error", 0, 0, d),
            success |-> FALSE]
      ELSE [calls |-> order, success |-> o = "ok"]

\* update_position_status keeping a failed write to itself
UpdatePositionStatus_Silent(pos, position_id, remaining_quantity, db, d) ==
  <<Ev("update_position_status", pos, 0, "", position_id, remaining_quantity, "")>>
    \o IF position_id = NoId THEN <<>>
       ELSE <<Ev("db_update", pos, 0, "HEDGED", position_id, remaining_quantity, db)>>
\* update_position_status writing also when the position has no id
UpdatePositionStatus_AlwaysWrites(pos, position_id, remaining_quantity, db, d) ==
  <<Ev("update_position_status", pos, 0, "", position_id, remaining_quantity, ""),
    Ev("db_update", pos, 0, "HEDGED", position_id, remaining_quantity, db)>>
    \o IF db = "raise"
       THEN SendDiscordAlert(pos, 0, "db_error", position_id, 0, d)
       ELSE <<>>
UpdatePositionStatus(pos, position_id, remaining_quantity, db, d) ==
  <<Ev("update_position_status", pos, 0, "", position_id, remaining_quantity, "")>>
    \o IF position_id = NoId THEN <<>>
       ELSE <<Ev("db_update", pos, 0, "HEDGED", position_id, remaining_quantity, db)>>
              \o IF db = "raise"
                 THEN SendDiscordAlert(pos, 0, "db_error", position_id, 0, d)
                 ELSE <<>>

\* the trigger taking a loss of 50% for a gain
TriggerMet_Magnitude(entry_price, current_price) ==
  ~MagLt(FDiv(FSub(current_price, entry_price), entry_price), TriggerGain)
\* the trigger firing as soon as the price is not below the entry price
TriggerMet_AnyGain(entry_price, current_price) ==
  FGe(FDiv(FSub(current_price, entry_price), entry_price), FZero)
\* percent_gain >= 0.50
TriggerMet(entry_price, current_price) ==
  FGe(FDiv(FSub(current_price, entry_price), entry_price), TriggerGain)

\* process_position going on to the order with a quantity of 0
Evaluate_SellsAnyQuantity(pos, position, fault, m) ==
  LET ticker == position.ticker
      entry_price == position.entry_price
      quantity == position.quantity
      begin == <<Ev("process_position", pos, ticker, "", quantity, 0, "")>>
      quote == GetCurrentPrice(m)
      current_price == quote.val
      fetched == begin \o <<Ev("get_market", pos, ticker, "", m.yes_bid, 0, m.res)>>
      contracts_to_sell == CalculateHedgeQuantity(entry_price, quantity, current_price)
      sized == fetched \o <<Ev("calculate_hedge_quantity", pos, ticker, "", contracts_to_sell, 0, "")>>
      Out(c, s, n) == [calls |-> c, stage |-> s, contracts_to_sell |-> n, current_price |-> current_price]
  IN  IF fault THEN Out(begin, "raise", 0)
      ELSE IF m.res = "hang" THEN Out(fetched, "block", 0)
      ELSE IF ~quote.some THEN Out(fetched, "return", 0)
      ELSE IF FIsZero(entry_price) THEN Out(fetched, "raise", 0)
      ELSE IF ~TriggerMet(entry_price, current_price) THEN Out(fetched, "return", 0)
      ELSE IF FIsZero(current_price) THEN Out(fetched, "raise", 0)
      ELSE IF contracts_to_sell < 0 THEN Out(sized, "return", 0)
      ELSE Out(sized, "sell", contracts_to_sell)
\* process_position up to the sell order: the price fetch, the trigger and
\* the sizing.  stage tells how it goes on: "return", "raise" (an exception
\* leaves process_position), "sell" (execute_sell_order is called) or
\* "block" (get_market never answers).
\* fault: one of the first statements (lines 229-234) raises, before any
\* collaborator is called; m: what get_market does.  A zero entry_price
\* raises ZeroDivisionError at line 244.
Evaluate(pos, position, fault, m) ==
  LET ticker == position.ticker
      entry_price == position.entry_price
      quantity == position.quantity
      begin == <<Ev("process_position", pos, ticker, "", quantity, 0, "")>>
      quote == GetCurrentPrice(m)
      current_price == quote.val
      fetched == begin \o <<Ev("get_market", pos, ticker, "", m.yes_bid, 0, m.res)>>
      contracts_to_sell == CalculateHedgeQuantity(entry_price, quantity, current_price)
      sized == fetched \o <<Ev("calculate_hedge_quantity", pos, ticker, "", contracts_to_sell, 0, "")>>
      Out(c, s, n) == [calls |-> c, stage |-> s, contracts_to_sell |-> n, current_price |-> current_price]
  IN  IF fault THEN Out(begin, "raise", 0)
      ELSE IF m.res = "hang" THEN Out(fetched, "block", 0)
      ELSE IF ~quote.some THEN Out(fetched, "return", 0)
      ELSE IF FIsZero(entry_price) THEN Out(fetched, "raise", 0)
      ELSE IF ~TriggerMet(entry_price, current_price) THEN Out(fetched, "return", 0)
      ELSE IF FIsZero(current_price) THEN Out(fetched, "raise", 0)
      ELSE IF contracts_to_sell <= 0 THEN Out(sized, "return", 0)
      ELSE Out(sized, "sell", contracts_to_sell)

\* process_position submitting the order once more when it failed
Hedge_RetryOnce(pos, position, contracts_to_sell, current_price, o, db, d1, d2) ==
  LET sell == ExecuteSellOrder(pos, position.ticker, contracts_to_sell, current_price, o, d1)
      again == ExecuteSellOrder(pos, position.ticker, contracts_to_sell, current_price, o, d1)
      remaining_quantity == position.quantity - contracts_to_sell
  IN  IF sell.success
      THEN sell.calls
             \o UpdatePositionStatus(pos, position.id, remaining_quantity, db, d1)
             \o SendDiscordAlert(pos, position.ticker, "hedge_executed",
                                 contracts_to_sell, remaining_quantity, d2)
      ELSE sell.calls \o again.calls
\* process_position notifying the success before the status is updated
Hedge_NotifyFirst(pos, position, contracts_to_sell, current_price, o, db, d1, d2) ==
  LET sell == ExecuteSellOrder(pos, position.ticker, contracts_to_sell, current_price, o, d1)
      remaining_quantity == position.quantity - contracts_to_sell
  IN  IF sell.success
      THEN sell.calls
             \o SendDiscordAlert(pos, position.ticker, "hedge_executed",
                                 contracts_to_sell, remaining_quantity, d2)
             \o UpdatePositionStatus(pos, position.id, remaining_quantity, db, d1)
      ELSE sell.calls
\* process_position from the sell order on
Hedge(pos, position, contracts_to_sell, current_price, o, db, d1, d2) ==
  LET sell == ExecuteSellOrder(pos, position.ticker, contracts_to_sell, current_price, o, d1)
      remaining_quantity == position.quantity - contracts_to_sell
  IN  IF sell.success
      THEN sell.calls
             \o UpdatePositionStatus(pos, position.id, remaining_quantity, db, d1)
             \o SendDiscordAlert(pos, position.ticker, "hedge_executed",
                                 contracts_to_sell, remaining_quantity, d2)
      ELSE sell.calls

ClientOutcomes == {"ok", "raise"}
\* _validate_credentials forgetting the webhook address
ValidateCredentials_SkipsDiscord(env) == (Required \ {"DISCORD_URL"}) \ env
\* _validate_credentials: the missing variables; it raises when there is one
ValidateCredentials(env) == Required \ env

\* price_in_cents of fetch_open_positions: avg_price below 1 is taken for
\* dollars and multiplied by 100, any other is kept as it was reported
PriceInCents(p) ==
  LET avg_price == Dec(p.avg)
  IN  IF FLt(avg_price, FromInt(1)) THEN FMulInt(avg_price, 100) ELSE avg_price
\* (position * price_in_cents) / 100 of fetch_open_positions
InvestedValueDollars(p) ==
  FDiv(FMulInt(PriceInCents(p), p.position), FromInt(100))
Tracked(p) == FGe(InvestedValueDollars(p), FromInt(MIN_INVESTMENT_TO_HEDGE))
\* the dict fetch_open_positions builds for a portfolio item
PositionDict(p) ==
  [ticker |-> p.ticker, entry_price |-> Dec(p.avg), quantity |-> p.position,
   status |-> "OPEN", id |-> NoId]
FetchOpenPositions(gp, pf) ==
  IF gp = "raise" THEN <<>>
  ELSE LET valid == SelectSeq(pf, Tracked)
       IN  [i \in 1..Len(valid) |-> PositionDict(valid[i])]

\* the except clause of the for loop of run
ExceptPosition(pos, position, d) ==
  <<Ev("except", pos, position.ticker, "", 0, 0, "")>>
    \o SendDiscordAlert(pos, position.ticker, "processing_error", 0, 0, d)
\* run giving up at the first position that raises
AfterPosition_Abort(i, raised) ==
  IF raised THEN [pc |-> "exited", idx |-> i, exit_status |-> 1]
  ELSE [pc |-> "loop", idx |-> i + 1, exit_status |-> Running]
\* where run goes after one position, whether or not it raised
AfterPosition(i, raised) == [pc |-> "loop", idx |-> i + 1, exit_status |-> Running]
\* the exchange fills a sell order that it accepted
Fill(pf, ticker, n) ==
  [i \in 1..Len(pf) |->
     IF pf[i].ticker = ticker THEN [pf[i] EXCEPT !.position = @ - n] ELSE pf[i]]
SoldTickers(cs) ==
  {cs[i].ticker : i \in {j \in 1..Len(cs) : cs[j].op = "create_order" /\ cs[j].res = "ok"}}

\* ------------------------------------------------- the program, run by run
Portfolios ==
  UNION {{[i \in 1..n |-> [ticker |-> i, avg |-> f[i].avg, position |-> f[i].position]]
            : f \in [1..n -> Items]} : n \in 0..MaxPositions}
Init ==
  /\ pc = "start"
  /\ portfolio \in Portfolios
  /\ positions = <<>>
  /\ idx = 0
  /\ calls = <<>>
  /\ exit_status = Running
  /\ hedged = {}
  /\ arg = NoArg
  /\ ret = NoRet
  /\ environ \in SUBSET Required

\* main and KalshiBot.__init__: the five variables are validated, then the
\* Supabase client and the Kalshi client are created; any exception ends
\* the process with exit status 1
Main ==
  /\ pc = "start"
  /\ IF ValidateCredentials(environ) # {}
     THEN pc' = "exited" /\ exit_status' = 1 /\ calls' = calls
     ELSE \E sb \in ClientOutcomes, kc \in ClientOutcomes :
            /\ calls' = calls \o <<Ev("create_client", 0, 0, "supabase", 0, 0, sb)>>
                          \o IF sb = "ok"
                             THEN <<Ev("KalshiClient", 0, 0, "kalshi", 0, 0, kc)>>
                             ELSE <<>>
            /\ IF sb = "ok" /\ kc = "ok"
               THEN pc' = "run" /\ exit_status' = Running
               ELSE pc' = "exited" /\ exit_status' = 1
  /\ UNCHANGED <<portfolio, positions, idx, hedged, arg, ret, environ>>

\* run up to the for loop
RunFetch ==
  /\ pc = "run"
  /\ \E gp \in {"ok", "raise", "hang"} :
       /\ calls' = calls \o <<Ev("get_positions", 0, 0, "", 0, 0, gp)>>
       /\ positions' = IF gp = "hang" THEN positions ELSE FetchOpenPositions(gp, portfolio)
       /\ IF gp = "hang"
          THEN pc' = "blocked" /\ exit_status' = Running /\ idx' = 0
          ELSE IF positions' = <<>>
          THEN pc' = "exited" /\ exit_status' = 0 /\ idx' = 0
          ELSE pc' = "loop" /\ exit_status' = Running /\ idx' = 1
  /\ UNCHANGED <<portfolio, hedged, arg, ret, environ>>

\* where run is when a call to the exchange never answers
Blocked(i) == [pc |-> "blocked", idx |-> i, exit_status |-> Running]
\* one turn of the for loop of run: process_position and the except clause;
\* a create_order that never answers leaves the order in the call log and
\* the run inside the call
RunProcess ==
  /\ pc = "loop"
  /\ idx <= Len(positions)
  /\ \E fault \in BOOLEAN, m \in Market(LiveBids) \cup {NoAnswer} :
     \E ev \in {Evaluate(idx, positions[idx], fault, m)} :
       LET position == positions[idx]
       IN  IF ev.stage = "sell"
           THEN \E o \in OrderOutcomes \cup {"hang"}, db \in DbOutcomes,
                   d1 \in DiscordOutcomes, d2 \in DiscordOutcomes :
                  LET after == IF o = "hang" THEN Blocked(idx) ELSE AfterPosition(idx, FALSE)
                  IN  /\ calls' = calls \o ev.calls
                                     \o Hedge(idx, position, ev.contracts_to_sell, ev.current_price, o, db, d1, d2)
                      /\ portfolio' = IF o = "ok"
                                      THEN Fill(portfolio, position.ticker, ev.contracts_to_sell)
                                      ELSE portfolio
                      /\ pc' = after.pc /\ idx' = after.idx /\ exit_status' = after.exit_status
           ELSE LET after == IF ev.stage = "block" THEN Blocked(idx)
                             ELSE AfterPosition(idx, ev.stage = "raise")
                IN  /\ IF ev.stage = "raise"
                       THEN \E d \in DiscordOutcomes :
                              calls' = calls \o ev.calls \o ExceptPosition(idx, position, d)
                       ELSE calls' = calls \o ev.calls
                    /\ portfolio' = portfolio
                    /\ pc' = after.pc /\ idx' = after.idx /\ exit_status' = after.exit_status
  /\ UNCHANGED <<positions, hedged, arg, ret, environ>>

\* the end of run and of main
RunFinish ==
  /\ pc = "loop"
  /\ idx > Len(positions)
  /\ pc' = "exited"
  /\ exit_status' = 0
  /\ UNCHANGED <<portfolio, positions, idx, calls, hedged, arg, ret, environ>>

\* the scheduler starts the program again
NextRun ==
  /\ pc = "exited"
  /\ pc' = "start"
  /\ positions' = <<>>
  /\ idx' = 0
  /\ calls' = <<>>
  /\ exit_status' = Running
  /\ hedged' = hedged \cup SoldTickers(calls)
  /\ UNCHANGED <<portfolio, arg, ret, environ>>

Next == Main \/ RunFetch \/ RunProcess \/ RunFinish \/ NextRun
Spec == Init /\ [][Next]_vars

\* a run that was started takes its next step, the interpreter does not
\* stop; a call to the exchange that never answers is a step into
\* "blocked", from where the run has no step.  The scheduler need not
\* start another run.
SpecLive ==
  Spec /\ WF_vars(Main) /\ WF_vars(RunFetch) /\ WF_vars(RunProcess) /\ WF_vars(RunFinish)

\* ------------------------------------- the two methods called on their own
InitUnit ==
  /\ pc = "test"
  /\ arg \in [avg : 0..MaxEntryCents, quantity : 1..MaxQty, id : {NoId, StoredId}]
  /\ portfolio = <<>>
  /\ positions = <<[ticker |-> 1, entry_price |-> Dec(arg.avg), quantity |-> arg.quantity,
                    status |-> "OPEN", id |-> arg.id]>>
  /\ idx = 1
  /\ calls = <<>>
  /\ exit_status = Running
  /\ hedged = {}
  /\ ret = NoRet
  /\ environ = Required

TestCalculateHedgeQuantity ==
  /\ pc = "test"
  /\ \E b \in 1..MaxBidCents :
       ret' = [yes_bid |-> b,
               value |-> CalculateHedgeQuantity(positions[1].entry_price, positions[1].quantity, Dec(b))]
  /\ pc' = "sized"
  /\ UNCHANGED <<portfolio, positions, idx, calls, exit_status, hedged, arg, environ>>

TestProcessPosition ==
  /\ pc = "test"
  /\ \E m \in Market(0..MaxBidCents) :
     \E ev \in {Evaluate(1, positions[1], FALSE, m)} :
       LET position == positions[1]
       IN  /\ pc' = IF ev.stage = "raise" THEN "raised" ELSE "returned"
           /\ IF ev.stage = "sell"
              THEN \E o \in OrderOutcomes, db \in DbOutcomes, d1 \in DiscordOutcomes, d2 \in DiscordOutcomes :
                     calls' = ev.calls
                                \o Hedge(1, position, ev.contracts_to_sell, ev.current_price, o, db, d1, d2)
              ELSE calls' = ev.calls
  /\ UNCHANGED <<portfolio, positions, idx, exit_status, hedged, arg, ret, environ>>

NextUnit == TestCalculateHedgeQuantity \/ TestProcessPosition
SpecUnit == InitUnit /\ [][NextUnit]_vars

\* ------------------------------ the program and the calls of its methods
\* Every use of KalshiBot the model has: the runs of main and the direct
\* calls of process_position and calculate_hedge_quantity.
InitAll == Init \/ InitUnit
NextAll == Next \/ NextUnit
SpecAll == InitAll /\ [][NextAll]_vars

\* ------------------------------------------------------------ properties
Events(op) == {i \in 1..Len(calls) : calls[i].op = op}
Did(op) == Events(op) # {}
\* the yes_bid, in cents, that a unit call of process_position was quoted
QuotedBids == {calls[i].a : i \in {j \in Events("get_market") : calls[j].res = "ok"}}
\* the cost of one contract in dollars, whichever way avg_price is
\* reported: the price in cents that fetch_open_positions computes, over 100
CostDollars(p) == FDiv(PriceInCents(p), FromInt(100))
ItemOf(ticker) == CHOOSE p \in {portfolio[i] : i \in 1..Len(portfolio)} : p.ticker = ticker

\* C1: for E > 0 and an available price P, process_position goes on to the
\* sizing exactly when P >= 1.5 E (E = avg/100 and P = yes_bid/100, so
\* exactly when 2 * yes_bid >= 3 * avg), the boundary included; below it
\* there is no order, no status call and no notification.
C1_TriggerExactlyAtHalfGain ==
  (pc = "returned" /\ arg.avg > 0) =>
    \A b \in QuotedBids :
      /\ Did("calculate_hedge_quantity") <=> 2 * b >= 3 * arg.avg
      /\ 2 * b < 3 * arg.avg =>
           ~Did("create_order") /\ ~Did("update_position_status") /\ ~Did("send_discord_alert")

\* C2: every position fetch_open_positions returns has its entry_price in
\* dollars, also when avg_price is reported in cents, so that a quote with
\* a gain of 50% on the cost in dollars fires the trigger for it.
C2_EntryPriceInDollars ==
  /\ \A i \in 1..Len(positions) :
       positions[i].entry_price = CostDollars(ItemOf(positions[i].ticker))
  /\ \A i \in Events("get_market") :
       (calls[i].res = "ok"
          /\ TriggerMet(CostDollars(ItemOf(calls[i].ticker)), Dec(calls[i].a)))
         => \E j \in Events("calculate_hedge_quantity") : calls[j].pos = calls[i].pos

\* C3: for E > 0, Q >= 1 and P > 0 calculate_hedge_quantity returns a
\* quantity between 0 and Q - 1: at least one contract remains.
C3_SellQtyLeavesOne ==
  (pc = "sized" /\ arg.avg > 0) => (0 <= ret.value /\ ret.value <= arg.quantity - 1)
\* the cap is what holds the quantity down: P <= E, so floor(E*Q/P) >= Q
C3_Witness ==
  /\ pc = "sized" /\ arg.avg > 0 /\ arg.quantity > 1
  /\ ret.yes_bid < arg.avg
  /\ ret.value = arg.quantity - 1

\* C4: the quantity returned never over-recovers: sell_qty * P <= E * Q
\* (in cents: sell_qty * yes_bid <= avg * Q), floor value or capped value.
C4_NeverOverRecovers ==
  (pc = "sized" /\ arg.avg > 0) => ret.value * ret.yes_bid <= arg.avg * arg.quantity
\* a floor value below the cap, with a quotient that is not an integer
C4_Witness ==
  /\ pc = "sized" /\ arg.avg > 0
  /\ 0 < ret.value /\ ret.value < arg.quantity - 1
  /\ ret.value * ret.yes_bid < arg.avg * arg.quantity
  /\ (ret.value + 1) * ret.yes_bid > arg.avg * arg.quantity

\* C5 as stated: a sell order placed after the trigger recovers the capital,
\* sell_qty * P >= E * Q, and sell_qty is the least such quantity.
C5_ProceedsRecoverCapital ==
  (pc = "returned" /\ arg.avg > 0) =>
    \A i \in Events("create_order") : \A b \in QuotedBids :
      /\ calls[i].a * b >= arg.avg * arg.quantity
      /\ (calls[i].a - 1) * b < arg.avg * arg.quantity
\* C5 amended: a sell order placed after the trigger never recovers more than
\* the capital, sell_qty * P <= E * Q, and falls short of it by less than the
\* price of two contracts: sell_qty is the greatest such quantity or one less.
C5_ProceedsWithinCapital ==
  (pc = "returned" /\ arg.avg > 0) =>
    \A i \in Events("create_order") : \A b \in QuotedBids :
      /\ calls[i].a * b <= arg.avg * arg.quantity
      /\ (calls[i].a + 2) * b > arg.avg * arg.quantity
\* an order whose proceeds are below the capital
C5_Witness ==
  /\ pc = "returned" /\ arg.avg > 0
  /\ \E i \in Events("create_order") : \E b \in QuotedBids :
       calls[i].a * b < arg.avg * arg.quantity

\* C6: when get_positions raises, the run notifies and exits non-zero.
C6_FetchFailureIsFatal ==
  (pc = "exited" /\ \E i \in Events("get_positions") : calls[i].res = "raise") =>
    (exit_status # 0 /\ Did("send_discord_alert"))

\* C7: every sell order that does not succeed, because create_order raised
\* or returned no order, is followed by an alert that names the ticker.
C7_OrderFailureNotified ==
  \A i \in Events("create_order") :
    calls[i].res \in {"raise", "none"} =>
      \E j \in Events("send_discord_alert") :
        j > i /\ calls[j].pos = calls[i].pos /\ calls[j].ticker = calls[i].ticker

\* C8: update_position_status is called for a position only after its sell
\* order succeeded, the success notification only after that call, and after
\* a failed order the position's status is never touched.
C8_StatusAfterConfirmedSell ==
  /\ \A i \in Events("update_position_status") :
       \E j \in Events("create_order") :
         j < i /\ calls[j].pos = calls[i].pos /\ calls[j].res = "ok"
  /\ \A i \in Events("send_discord_alert") :
       calls[i].kind = "hedge_executed" =>
         \E j \in Events("update_position_status") : j < i /\ calls[j].pos = calls[i].pos
  /\ \A i \in Events("create_order") :
       calls[i].res # "ok" =>
         \A j \in Events("update_position_status") : calls[j].pos # calls[i].pos
C8_Witness ==
  \E i \in Events("send_discord_alert") : \E j \in Events("create_order") :
    /\ calls[i].kind = "hedge_executed"
    /\ calls[j].res # "ok" /\ calls[j].pos # calls[i].pos

Processed(k) == {i \in Events("process_position") : calls[i].pos = k}
\* C9: an exception that leaves process_position is caught by run and
\* reported with the position's ticker; the run goes on: every position of
\* the list is processed, each exactly once.
C9_ErrorsStayInPosition ==
  /\ \A i \in Events("except") :
       /\ i < Len(calls)
       /\ calls[i + 1].op = "send_discord_alert"
       /\ calls[i + 1].kind = "processing_error"
       /\ calls[i + 1].ticker = positions[calls[i].pos].ticker
  /\ pc = "loop" =>
       \A k \in 1..Len(positions) : Cardinality(Processed(k)) = (IF k < idx THEN 1 ELSE 0)
  /\ (pc = "exited" /\ positions # <<>>) =>
       /\ exit_status = 0
       /\ \A k \in 1..Len(positions) : Cardinality(Processed(k)) = 1
\* the first position raised, the second was processed, the run ended
C9_Witness ==
  /\ pc = "exited" /\ Len(positions) >= 2
  /\ \E i \in Events("except") : calls[i].pos = 1
  /\ \E i \in Events("get_market") : calls[i].pos = 2

\* C10: a position whose hedge order succeeded in an earlier run is not
\* evaluated or hedged again in a later run.
C10_HedgedNotEvaluatedAgain ==
  \A i \in Events("process_position") \cup Events("create_order") :
    calls[i].ticker \notin hedged

\* the events of the position at index k of the list
AtPosition(k) == {i \in 1..Len(calls) : calls[i].pos = k}
\* C11: when the price fetch of a position fails (get_market raises or
\* returns no market data, so get_current_price returns None) the position
\* is skipped: nothing but the fetch happens for it, no order, no status
\* call, no exception and no alert, and the run goes on to the next position.
C11_PriceFailureSkips ==
  \A i \in Events("get_market") :
    calls[i].res \in {"raise", "nodata"} =>
      LET k == calls[i].pos
      IN  /\ \A j \in AtPosition(k) : calls[j].op \in {"process_position", "get_market"}
          /\ idx > k
          /\ exit_status \in {Running, 0}
          /\ (k < Len(positions) /\ (pc # "loop" \/ idx > k + 1)) => Processed(k + 1) # {}
\* the first price fetch failed, the second position was hedged
C11_Witness ==
  /\ pc = "exited" /\ exit_status = 0
  /\ \E i \in Events("get_market") : calls[i].res \in {"raise", "nodata"} /\ calls[i].pos = 1
  /\ \E i \in Events("create_order") : calls[i].pos = 2

\* C12: when the trigger fires and calculate_hedge_quantity returns 0, as it
\* does for Q = 1 and whenever E * Q < P (in cents avg * Q < yes_bid),
\* process_position returns with no order, no status call and no alert.
C12_ZeroQuantityNoOrder ==
  (pc = "returned" /\ Did("calculate_hedge_quantity")) =>
    LET quiet == ~Did("create_order") /\ ~Did("update_position_status") /\ ~Did("send_discord_alert")
    IN  /\ \A i \in Events("calculate_hedge_quantity") : calls[i].a <= 0 => quiet
        /\ arg.quantity = 1 => quiet
        /\ \A b \in QuotedBids : arg.avg * arg.quantity < b => quiet
\* the trigger fired for more than one contract and the quantity was 0
C12_Witness ==
  /\ pc = "returned" /\ arg.quantity > 1
  /\ \E i \in Events("calculate_hedge_quantity") : calls[i].a = 0
  /\ \E b \in QuotedBids : arg.avg * arg.quantity < b

\* C13: when one of the five required variables is absent the process ends
\* with exit status 1 and has done nothing: no client was created, the
\* positions were not listed, no position was processed, no order placed.
C13_MissingConfigFailsFirst ==
  environ # Required =>
    /\ pc \in {"start", "exited"}
    /\ pc = "exited" => exit_status = 1
    /\ calls = <<>>
    /\ positions = <<>>
\* main ended for want of exactly one variable
C13_Witness ==
  /\ pc = "exited" /\ exit_status = 1
  /\ Cardinality(Required \ environ) = 1

\* the sell orders submitted for the position at index k of the list
OrdersAt(k) == {i \in Events("create_order") : calls[i].pos = k}
\* C14: in one run at most one sell order is submitted for a position; an
\* order that failed (create_order raised or returned no order) is the
\* position's only order and the last thing done to the exchange for it.
C14_OneOrderPerPosition ==
  /\ \A k \in 1..Len(positions) : Cardinality(OrdersAt(k)) <= 1
  /\ \A i \in Events("create_order") :
       calls[i].res # "ok" =>
         \A j \in AtPosition(calls[i].pos) : j > i => calls[j].op = "send_discord_alert"
\* a run that ended after an order failed
C14_Witness ==
  /\ pc = "exited"
  /\ \E i \in Events("create_order") : calls[i].res = "raise"
  /\ \E i \in Events("create_order") : calls[i].res = "none"

\* C15: after a successful sell order of sell_qty contracts
\* update_position_status is called with Q - sell_qty; when the position
\* has an id, status HEDGED and that quantity are written to its row, once;
\* when it has none, nothing is written and no error is notified.  Nothing
\* is written without a successful order.
C15_HedgedWithRemainingQuantity ==
  pc = "returned" =>
    /\ \A i \in Events("create_order") :
         calls[i].res = "ok" =>
           LET remaining == arg.quantity - calls[i].a
           IN  /\ \E j \in Events("update_position_status") :
                    j = i + 1 /\ calls[j].a = arg.id /\ calls[j].b = remaining
               /\ arg.id # NoId =>
                    /\ Cardinality(Events("db_update")) = 1
                    /\ \A j \in Events("db_update") :
                         calls[j].kind = "HEDGED" /\ calls[j].a = arg.id /\ calls[j].b = remaining
               /\ arg.id = NoId =>
                    /\ ~Did("db_update")
                    /\ \A j \in Events("send_discord_alert") : calls[j].kind = "hedge_executed"
    /\ Did("db_update") => \E i \in Events("create_order") : calls[i].res = "ok"
\* a position with an id was sold and its row written
C15_Witness ==
  /\ pc = "returned" /\ arg.id = StoredId
  /\ \E i \in Events("create_order") : \E j \in Events("db_update") :
       /\ calls[i].res = "ok" /\ calls[j].res = "ok"
       /\ calls[j].b = arg.quantity - calls[i].a /\ calls[i].a >= 2

\* the states of a run of main, as against those of a direct call
InRun == pc \in {"start", "run", "loop", "exited", "blocked"}
\* C16: a write of the status that fails after a successful sell order is
\* not fatal.  Where the write is made, update_position_status reports its
\* failure in an alert naming the position's id, the success alert of the
\* position is sent all the same and process_position returns without an
\* exception.  And in a run, once update_position_status was called for a
\* position, whatever it did, no exception reaches the loop for that
\* position, the run goes on to the remaining positions and when it ends
\* its exit status is 0.
C16_StatusFailureNotFatal ==
  /\ \A i \in Events("db_update") :
       calls[i].res = "raise" =>
         LET k == calls[i].pos
         IN  /\ \E j \in Events("create_order") : j < i /\ calls[j].pos = k /\ calls[j].res = "ok"
             /\ Len(calls) >= i + 2
             /\ calls[i + 1].op = "send_discord_alert" /\ calls[i + 1].pos = k
             /\ calls[i + 1].kind = "db_error" /\ calls[i + 1].a = positions[k].id
             /\ calls[i + 2].op = "send_discord_alert" /\ calls[i + 2].pos = k
             /\ calls[i + 2].kind = "hedge_executed" /\ calls[i + 2].b = calls[i].b
  /\ \A i \in Events("update_position_status") :
       LET k == calls[i].pos
       IN  /\ \A j \in Events("except") : calls[j].pos # k
           /\ pc # "raised"
           /\ \E j \in Events("send_discord_alert") :
                j > i /\ calls[j].pos = k /\ calls[j].kind = "hedge_executed"
           /\ InRun =>
                /\ idx > k
                /\ exit_status \in {Running, 0}
                /\ pc = "exited" => exit_status = 0
                /\ (k < Len(positions) /\ (pc # "loop" \/ idx > k + 1)) => Processed(k + 1) # {}
\* the write failed and both alerts were delivered
C16_Witness ==
  /\ pc = "returned"
  /\ \E i \in Events("db_update") : calls[i].res = "raise"
  /\ \E i \in Events("send_discord_alert") : calls[i].kind = "hedge_executed" /\ calls[i].res = "204"
  /\ \E i \in Events("send_discord_alert") : calls[i].kind = "db_error" /\ calls[i].res = "204"

\* what a failed alert leaves behind: the alert was not sent again, no
\* exception followed it for its position, the loop went on
AlertFailureContained ==
  \A i \in Events("send_discord_alert") :
    calls[i].res # "204" =>
      LET k == calls[i].pos
      IN  /\ \A j \in Events("send_discord_alert") :
               (j # i /\ calls[j].pos = k) => calls[j].kind # calls[i].kind
          /\ \A j \in Events("except") : calls[j].pos = k => j < i
          /\ idx > k
          /\ pc = "exited" => exit_status = 0
          /\ (k < Len(positions) /\ (pc # "loop" \/ idx > k + 1)) => Processed(k + 1) # {}
\* C17: an alert that is not delivered (the webhook answers another status
\* than 204, or the POST raises) is sent once and never again, raises
\* nothing into process_position or run, and does not keep the loop from
\* the next position; every run that was started comes to its end.
C17_NotifierFailureContained ==
  /\ []AlertFailureContained
  /\ [](pc # "exited" => <>(pc = "exited"))

\* C18: a quote of 0 for a position with E > 0 is a gain of -100%: the
\* trigger does not fire, process_position returns after the fetch with no
\* sizing (no division by the price), no order, no status call, no
\* exception and no alert.
C18_ZeroPriceNoDecision ==
  (pc \in {"returned", "raised"} /\ arg.avg > 0 /\ 0 \in QuotedBids) =>
    /\ pc = "returned"
    /\ Len(calls) = 2
    /\ ~Did("calculate_hedge_quantity") /\ ~Did("create_order")
    /\ ~Did("update_position_status") /\ ~Did("send_discord_alert")
\* process_position was quoted 0 for a position bought above 0
C18_Witness ==
  /\ pc = "returned" /\ arg.avg > 0 /\ arg.quantity > 1
  /\ 0 \in QuotedBids

\* the remaining quantities handed to the Status Sink and to the success alert
RemainingQuantities ==
  {calls[i].b : i \in Events("update_position_status")}
    \cup {calls[i].b : i \in {j \in Events("send_discord_alert") : calls[j].kind = "hedge_executed"}}
\* C19: whenever process_position calls calculate_hedge_quantity the trigger
\* has fired for E > 0 and P >= 1.5 E (2 * yes_bid >= 3 * avg), the floor
\* value floor(E*Q/P) lies in 0..Q-1 and is what is returned, unchanged by
\* the clamp; sell_qty <= floor(2Q/3), and every remaining quantity handed
\* on is at least ceil(Q/3) and at least 1.
C19_ClampNeverBinds ==
  pc \in {"returned", "raised"} =>
    /\ \A i \in Events("calculate_hedge_quantity") : \A b \in QuotedBids :
         LET raw == ContractsToSellRaw(positions[1].entry_price, arg.quantity, Dec(b))
         IN  /\ arg.avg > 0 /\ arg.quantity >= 1 /\ 2 * b >= 3 * arg.avg
             /\ 0 <= raw /\ raw <= arg.quantity - 1
             /\ calls[i].a = raw
             /\ 3 * calls[i].a <= 2 * arg.quantity
    /\ \A r \in RemainingQuantities : r >= 1 /\ 3 * r >= arg.quantity
\* two thirds of the position were sold, one third remains
C19_Witness ==
  /\ pc = "returned"
  /\ \E i \in Events("calculate_hedge_quantity") : 3 * calls[i].a = 2 * arg.quantity
  /\ \E r \in RemainingQuantities : 3 * r = arg.quantity
====
